---------------------------- MODULE Spec2Model ----------------------------
(***************************************************************************)
(* CW Fistcheck Online: the Morse keying trainer.                          *)
(*                                                                         *)
(* The parts that are modelled:                                            *)
(*   - textToIdealTiming (src/utils/morseUtils.ts), a pure function, as an *)
(*     operator; SynthSpec applies it to bounded texts and speeds.         *)
(*   - the useAudioKeyer hook (src/utils/morseUtils.ts): its refs and      *)
(*     React state are the variables, its callbacks are the actions of     *)
(*     Spec; QuietSpec is one session that the operator abandons, with the *)
(*     fairness of the audio callback and of the frame loop.               *)
(*   - the alignment of the Timeline (src/components/Timeline.tsx);        *)
(*     AlignSpec applies it to bounded ideal and captured sequences.       *)
(*   - detectCommand (src/utils/morseUtils.ts); DetectSpec applies it to   *)
(*     bounded lists.                                                      *)
(*   - the speed controls of App (src/unnamed/part_000), the actions of    *)
(*     AppSpec.                                                            *)
(*   - the practice lines of App: the source text, the navigation between  *)
(*     its lines and the reset effect, the actions of PracticeSpec.        *)
(*                                                                         *)
(* Numbers.  JavaScript numbers are modelled in fixed point:               *)
(*   - times and durations (seconds in the source) are integers counting   *)
(*     microseconds;                                                       *)
(*   - wpm is an integer counting tenths of a word per minute (the UI      *)
(*     steps the speed by 0.1);                                            *)
(*   - amplitudes, the envelope and the threshold are integers counting    *)
(*     tenths of full scale (1.0 in the source is 10 here).                *)
(* Products and quotients are rounded down to that resolution.             *)
(***************************************************************************)
EXTENDS Integers, Sequences, FiniteSets, TLC

(***************************************************************************)
(* Bounds of the model.                                                    *)
(***************************************************************************)
\* longest practice line fed to the synthesizer, in characters
MaxTextLen == 4
\* samples per audio block (512 in the source; the block is one action)
BufferLength == 2
\* microseconds between two samples (1/sampleRate)
SamplePeriod == 4000
\* audio blocks that the contexts deliver in a run before the long silence
MaxBlocks == 4
\* startListening calls that may wait for the microphone at once
MaxPending == 2
\* longest list of intervals handed to detectCommand
MaxSignals == 4

(***************************************************************************)
(* Constants of the program, in the units above.                           *)
(***************************************************************************)
\* the limits of updateWpm, 5 and 40 words per minute
MinWpm == 50
MaxWpm == 400
\* 0.015 s: the shortest gap or pulse that counts as an edge
DebounceTime == 15000
\* 0.01 s: the shortest final segment stopListening commits
MinFinalSegment == 10000
\* 5.0 s of silence after which updateUI stops the session
AutoPauseSilence == 5000000

Null == "null"
\* the AudioContexts (and their microphone streams) in order of creation
Contexts == <<"ctxA", "ctxB">>
Ctx == {Contexts[k] : k \in 1..Len(Contexts)}
\* amplitudes |sample| a block may hold: silence and half of full scale
Samples == {0, 5}
\* values the threshold slider is moved between (0.1 and 0.2)
Thresholds == {1, 2}
\* speeds, in tenths of a wpm: 5.0, 15.7, 38.5 and 40.0
Wpms == {50, 157, 385, 400}
\* characters of the practice lines: mapped letters in both cases, the word
\* space, and a character outside the supported set
Alphabet == {"E", "K", "e", " ", "#"}

Max(a, b) == IF a > b THEN a ELSE b
Last(s) == s[Len(s)]
Front(s) == SubSeq(s, 1, Len(s) - 1)
SeqsUpTo(S, n) == UNION {[1..k -> S] : k \in 0..n}
Texts == SeqsUpTo(Alphabet, MaxTextLen)
\* the reference word of the PARIS standard with the word space after it, in
\* both cases, and without the word space
ReferenceTexts ==
    { <<"P", "A", "R", "I", "S", " ">>,
      <<"p", "a", "r", "i", "s", " ">>,
      <<"P", "A", "R", "I", "S">> }

(***************************************************************************)
(* src/constants.ts                                                        *)
(***************************************************************************)
MORSE_MAP ==
    ("A" :> <<".", "-">>) @@ ("B" :> <<"-", ".", ".", ".">>) @@
    ("C" :> <<"-", ".", "-", ".">>) @@ ("D" :> <<"-", ".", ".">>) @@ ("E" :> <<".">>) @@
    ("F" :> <<".", ".", "-", ".">>) @@ ("G" :> <<"-", "-", ".">>) @@
    ("H" :> <<".", ".", ".", ".">>) @@ ("I" :> <<".", ".">>) @@
    ("J" :> <<".", "-", "-", "-">>) @@ ("K" :> <<"-", ".", "-">>) @@
    ("L" :> <<".", "-", ".", ".">>) @@ ("M" :> <<"-", "-">>) @@ ("N" :> <<"-", ".">>) @@
    ("O" :> <<"-", "-", "-">>) @@ ("P" :> <<".", "-", "-", ".">>) @@
    ("Q" :> <<"-", "-", ".", "-">>) @@ ("R" :> <<".", "-", ".">>) @@
    ("S" :> <<".", ".", ".">>) @@ ("T" :> <<"-">>) @@ ("U" :> <<".", ".", "-">>) @@
    ("V" :> <<".", ".", ".", "-">>) @@ ("W" :> <<".", "-", "-">>) @@
    ("X" :> <<"-", ".", ".", "-">>) @@ ("Y" :> <<"-", ".", "-", "-">>) @@
    ("Z" :> <<"-", "-", ".", ".">>) @@ ("1" :> <<".", "-", "-", "-", "-">>) @@
    ("2" :> <<".", ".", "-", "-", "-">>) @@ ("3" :> <<".", ".", ".", "-", "-">>) @@
    ("4" :> <<".", ".", ".", ".", "-">>) @@ ("5" :> <<".", ".", ".", ".", ".">>) @@
    ("6" :> <<"-", ".", ".", ".", ".">>) @@ ("7" :> <<"-", "-", ".", ".", ".">>) @@
    ("8" :> <<"-", "-", "-", ".", ".">>) @@ ("9" :> <<"-", "-", "-", "-", ".">>) @@
    ("0" :> <<"-", "-", "-", "-", "-">>) @@ ("." :> <<".", "-", ".", "-", ".", "-">>) @@
    ("," :> <<"-", "-", ".", ".", "-", "-">>) @@ ("?" :> <<".", ".", "-", "-", ".", ".">>) @@
    ("'" :> <<".", "-", "-", "-", "-", ".">>) @@ ("!" :> <<"-", ".", "-", ".", "-", "-">>) @@
    ("/" :> <<"-", ".", ".", "-", ".">>) @@ ("(" :> <<"-", ".", "-", "-", ".">>) @@
    (")" :> <<"-", ".", "-", "-", ".", "-">>) @@ ("&" :> <<".", "-", ".", ".", ".">>) @@
    (":" :> <<"-", "-", "-", ".", ".", ".">>) @@ (";" :> <<"-", ".", "-", ".", "-", ".">>) @@
    ("=" :> <<"-", ".", ".", ".", "-">>) @@ ("+" :> <<".", "-", ".", "-", ".">>) @@
    ("-" :> <<"-", ".", ".", ".", ".", "-">>) @@ ("_" :> <<".", ".", "-", "-", ".", "-">>) @@
    ("\"" :> <<".", "-", ".", ".", "-", ".">>) @@
    ("$" :> <<".", ".", ".", "-", ".", ".", "-">>) @@
    ("@" :> <<".", "-", "-", ".", "-", ".">>) @@ (" " :> <<"/">>)

\* 1200 / wpm milliseconds, here in microseconds for wpm in tenths
\* a dot length off the PARIS standard (1000 / wpm)
DotLengthOffStandard(w) == (1000 * 1000 * 10) \div w

\* 1200 / wpm milliseconds, in microseconds, for w tenths of a wpm
calculateDotLength(w) == (1200 * 1000 * 10) \div w

(***************************************************************************)
(* textToIdealTiming (src/utils/morseUtils.ts)                             *)
(***************************************************************************)
LowerCase == <<"a", "b", "c", "d", "e", "f", "g", "h", "i", "j", "k", "l", "m",
               "n", "o", "p", "q", "r", "s", "t", "u", "v", "w", "x", "y", "z">>
UpperCase == <<"A", "B", "C", "D", "E", "F", "G", "H", "I", "J", "K", "L", "M",
               "N", "O", "P", "Q", "R", "S", "T", "U", "V", "W", "X", "Y", "Z">>
toUpperCase(ch) ==
    IF \E k \in 1..26 : LowerCase[k] = ch
    THEN UpperCase[CHOOSE k \in 1..26 : LowerCase[k] = ch]
    ELSE ch

\* the characters the regular expression [^A-Z0-9 .,?'!/()&:;=+_"$@-] keeps
Supported ==
    {UpperCase[k] : k \in 1..26} \cup
    {"0", "1", "2", "3", "4", "5", "6", "7", "8", "9", " ", ".", ",", "?", "'",
     "!", "/", "(", ")", "&", ":", ";", "=", "+", "_", "\"", "$", "@", "-"}

\* a cleaning that leaves unsupported characters in the text, for the loop
\* to skip
cleanTextKeeping(text) == [i \in 1..Len(text) |-> toUpperCase(text[i])]

\* text.toUpperCase().replace(/[^...]/g, ' ')
cleanText(text) ==
    [i \in 1..Len(text) |->
        IF toUpperCase(text[i]) \in Supported THEN toUpperCase(text[i]) ELSE " "]

\* a word space that extends the gap by three units only
WordSpaceOfThree(acc, dotMs) ==
    IF Len(acc.intervals) > 0 /\ Last(acc.intervals).state = "off"
    THEN [intervals |-> [acc.intervals EXCEPT ![Len(acc.intervals)].duration =
                                                  @ + 3 * dotMs],
          currentTime |-> acc.currentTime + 3 * dotMs]
    ELSE acc

\* the word-space branch: extend the trailing off interval by four units
WordSpace(acc, dotMs) ==
    IF Len(acc.intervals) > 0 /\ Last(acc.intervals).state = "off"
    THEN [intervals |-> [acc.intervals EXCEPT ![Len(acc.intervals)].duration =
                                                  @ + 4 * dotMs],
          currentTime |-> acc.currentTime + 4 * dotMs]
    ELSE acc

\* a symbol whose dash lasts two units
SymbolOfShortDash(acc, symbol, isLast, dotMs) ==
    LET duration == IF symbol = "." THEN dotMs ELSE 2 * dotMs
        mark == [startTime |-> acc.currentTime, duration |-> duration, state |-> "on"]
        t1 == acc.currentTime + duration
    IN  IF ~isLast
        THEN [intervals |-> acc.intervals \o
                            <<mark, [startTime |-> t1, duration |-> dotMs, state |-> "off"]>>,
              currentTime |-> t1 + dotMs]
        ELSE [intervals |-> Append(acc.intervals, mark), currentTime |-> t1]

\* one symbol of a character's code: the mark, and the one-unit space after
\* it unless it is the last symbol
Symbol(acc, symbol, isLast, dotMs) ==
    LET duration == IF symbol = "." THEN dotMs ELSE 3 * dotMs
        mark == [startTime |-> acc.currentTime, duration |-> duration, state |-> "on"]
        t1 == acc.currentTime + duration
    IN  IF ~isLast
        THEN [intervals |-> acc.intervals \o
                            <<mark, [startTime |-> t1, duration |-> dotMs, state |-> "off"]>>,
              currentTime |-> t1 + dotMs]
        ELSE [intervals |-> Append(acc.intervals, mark), currentTime |-> t1]

RECURSIVE Symbols(_, _, _, _)
Symbols(acc, code, j, dotMs) ==
    IF j > Len(code) THEN acc
    ELSE Symbols(Symbol(acc, code[j], j = Len(code), dotMs), code, j + 1, dotMs)

\* an inter-character space that does not advance currentTime
CharSpaceInPlace(acc, dotMs) ==
    [intervals |-> Append(acc.intervals,
                          [startTime |-> acc.currentTime, duration |-> 3 * dotMs,
                           state |-> "off"]),
     currentTime |-> acc.currentTime]

\* the inter-character space appended after every character
CharSpace(acc, dotMs) ==
    [intervals |-> Append(acc.intervals,
                          [startTime |-> acc.currentTime, duration |-> 3 * dotMs,
                           state |-> "off"]),
     currentTime |-> acc.currentTime + 3 * dotMs]

\* one iteration of the loop over cleanText
Character(acc, char, dotMs) ==
    IF char = " " THEN WordSpace(acc, dotMs)
    ELSE IF char \notin DOMAIN MORSE_MAP THEN acc
    ELSE CharSpace(Symbols(acc, MORSE_MAP[char], 1, dotMs), dotMs)

RECURSIVE Characters(_, _, _, _)
Characters(acc, clean, i, dotMs) ==
    IF i > Len(clean) THEN acc
    ELSE Characters(Character(acc, clean[i], dotMs), clean, i + 1, dotMs)

textToIdealTiming(text, w) ==
    Characters([intervals |-> <<>>, currentTime |-> 0], cleanText(text), 1,
               calculateDotLength(w)).intervals

(***************************************************************************)
(* detectCommand (src/utils/morseUtils.ts)                                 *)
(***************************************************************************)
\* signals.filter(s => s.state === 'on')
RECURSIVE FilterOn(_)
FilterOn(signals) ==
    IF signals = <<>> THEN <<>>
    ELSE IF Head(signals).state = "on"
         THEN <<Head(signals)>> \o FilterOn(Tail(signals))
         ELSE FilterOn(Tail(signals))

\* a detector that looks at the first three tones
detectCommandAtStart(signals, w, commandChar) ==
    IF Len(signals) < 3 THEN FALSE
    ELSE LET dotMs == calculateDotLength(w)
             onSignals == FilterOn(signals)
         IN  IF Len(onSignals) < 3 THEN FALSE
             ELSE /\ MORSE_MAP[commandChar] = <<"-", ".", "-">>
                  /\ onSignals[1].duration > dotMs * 2
                  /\ onSignals[2].duration < dotMs * 2
                  /\ onSignals[3].duration > dotMs * 2

detectCommand(signals, w, commandChar) ==
    IF Len(signals) < 3 THEN FALSE
    ELSE LET dotMs == calculateDotLength(w)
             dotMax == dotMs * 2
             dahMin == dotMs * 2
             onSignals == FilterOn(signals)
         IN  IF Len(onSignals) < 3 THEN FALSE
             ELSE LET last3 == SubSeq(onSignals, Len(onSignals) - 2, Len(onSignals))
                      isDah1 == last3[1].duration > dahMin
                      isDit == last3[2].duration < dotMax
                      isDah2 == last3[3].duration > dahMin
                      targetCode == MORSE_MAP[commandChar]
                  IN  targetCode = <<"-", ".", "-">> /\ isDah1 /\ isDit /\ isDah2

(***************************************************************************)
(* Timeline (src/components/Timeline.tsx): the alignment.                  *)
(***************************************************************************)
\* signals.find(s => s.state === 'on'): <<>> for undefined
FindOn(signals) ==
    IF \E i \in 1..Len(signals) : signals[i].state = "on"
    THEN <<signals[CHOOSE i \in 1..Len(signals) :
                       /\ signals[i].state = "on"
                       /\ \A j \in 1..(i - 1) : signals[j].state # "on"]>>
    ELSE <<>>

\* the committed list with the pending interval; activeSignal is <<>> for
\* undefined or <<[state, startTime, currentTime]>>
displaySignals(userSigs, activeSignal, listening) ==
    IF activeSignal = <<>> \/ ~listening THEN userSigs
    ELSE LET duration == activeSignal[1].currentTime - activeSignal[1].startTime
         IN  IF duration <= 0 THEN userSigs
             ELSE Append(userSigs, [startTime |-> activeSignal[1].startTime,
                                    duration |-> duration,
                                    state |-> activeSignal[1].state])

\* an alignment that shows the captured intervals unshifted when there is
\* nothing to align them with
AlignedOrUnshifted(ideal, display) ==
    LET firstIdeal == FindOn(ideal)
        firstUser == FindOn(display)
        shift == IF firstUser = <<>> \/ firstIdeal = <<>> THEN 0
                 ELSE firstIdeal[1].startTime - firstUser[1].startTime
    IN  [i \in 1..Len(display) |->
            [display[i] EXCEPT !.startTime = @ + shift]]

\* an alignment that brings the first captured interval, of either state,
\* to the first ideal tone
AlignedOnFirstInterval(ideal, display) ==
    LET firstIdeal == FindOn(ideal)
        firstUser == FindOn(display)
    IN  IF firstUser = <<>> \/ firstIdeal = <<>> THEN <<>>
        ELSE LET shift == firstIdeal[1].startTime - display[1].startTime
             IN  [i \in 1..Len(display) |->
                     [display[i] EXCEPT !.startTime = @ + shift]]

alignedUserSignals(ideal, display) ==
    LET firstIdeal == FindOn(ideal)
        firstUser == FindOn(display)
    IN  IF firstUser = <<>> \/ firstIdeal = <<>> THEN <<>>
        ELSE LET shift == firstIdeal[1].startTime - firstUser[1].startTime
             IN  [i \in 1..Len(display) |->
                     [display[i] EXCEPT !.startTime = @ + shift]]

(***************************************************************************)
(* State.                                                                  *)
(***************************************************************************)
VARIABLES
    \* App (src/unnamed/part_000)
    lines,              \* the non-blank lines of the source text
    currentLineIndex,   \* counted from 0, as in the source
    currentLineText,    \* lines[currentLineIndex] || ""
    wpm,                \* speed, in tenths of a wpm
    idealSignals,       \* the memoised textToIdealTiming(currentLineText, wpm)
    userSignals,        \* the list last delivered through onSignalChange
    \* Timeline: its memoised values
    displayed,          \* displaySignals
    aligned,            \* alignedUserSignals
    detected,           \* what detectCommand returned
    \* useAudioKeyer: React state
    isListening,        \* also isListeningRef, which an effect copies from it
    activeSignalStart,  \* <<>> for null, <<t>> for the number t
    isSignalOn,
    \* useAudioKeyer: refs
    audioContextRef,
    scriptNodeRef,
    sourceRef,
    streamRef,
    rafRef,             \* TRUE while the frame rafRef.current names is scheduled;
                        \* a frame an overlapping start left behind repeats its test
    signalsRef,
    isSignalOnRef,
    lastChangeTimeRef,
    startTimeRef,
    smoothedEnvRef,
    \* the browser
    contextState,       \* per context: "none", "running" or "closed"
    attached,           \* contexts whose script node is connected and fires
    liveStreams,        \* microphone streams whose tracks are not stopped
    clock,              \* per context: playbackTime of its next block
    pendingStarts,      \* startListening calls awaiting getUserMedia
    input,              \* the microphone: "keyed" while tones may come, "silent"
                        \* once the operator has left the key for good
    \* observation of the run
    lastOp,             \* the handler that made the last step
    edge,               \* while on: when the tone began, when the gap before it began
    pulse,              \* the last tone of less than DebounceTime that a block ended
    steps,              \* what each sample of the last block did, in order
    gap,                \* the last committed tone's end and start while the gap
                        \* after it is open; what became of a gap of less than
                        \* DebounceTime after it
    held                \* the array that is signalsRef.current, as the presentation
                        \* layer has it: "none" not handed over, "live" handed over
                        \* and as it was, "mutated" changed in place since

viewVars == <<displayed, aligned, detected>>
lineVars == <<lines, currentLineIndex, currentLineText>>
appVars == <<lineVars, wpm, idealSignals, viewVars>>
stateVars == <<isListening, activeSignalStart, isSignalOn>>
resourceRefs == <<audioContextRef, scriptNodeRef, sourceRef, streamRef>>
captureRefs == <<signalsRef, isSignalOnRef, lastChangeTimeRef, startTimeRef, smoothedEnvRef>>
browserVars == <<contextState, attached, liveStreams, clock, pendingStarts>>
vars == <<appVars, userSignals, stateVars, resourceRefs, captureRefs, browserVars,
          input, rafRef, lastOp, edge, pulse, steps, gap, held>>

NoEdge == [onAt |-> 0, offStart |-> 0]
NoPulse == [seen |-> FALSE, offStart |-> 0, openStart |-> 0, committed |-> FALSE]
NoGap == [fellAt |-> -1, onStart |-> -1, phase |-> "none", ok |-> TRUE]
\* gap once a later handler runs: a closed observation is not kept
Settled(g) == IF g.phase = "closed" THEN [g EXCEPT !.phase = "none", !.ok = TRUE] ELSE g

\* duration of one block on the audio clock
BlockTime == BufferLength * SamplePeriod
\* a silence of more than AutoPauseSilence, in whole blocks
SilenceTime == ((AutoPauseSilence \div BlockTime) + 1) * BlockTime
\* a silence that ends two blocks before AutoPauseSilence is reached
NearSilenceTime == SilenceTime - 3 * BlockTime
\* how far audioContext.currentTime may be ahead of the next block's
\* playbackTime when a handler reads it
Leads == {0, SamplePeriod}
Blocks == [1..BufferLength -> Samples]

HookInit ==
    /\ userSignals = <<>>
    /\ isListening = FALSE
    /\ activeSignalStart = <<>>
    /\ isSignalOn = FALSE
    /\ audioContextRef = Null
    /\ scriptNodeRef = Null
    /\ sourceRef = Null
    /\ streamRef = Null
    /\ rafRef = FALSE
    /\ signalsRef = <<>>
    /\ isSignalOnRef = FALSE
    /\ lastChangeTimeRef = 0
    /\ startTimeRef = 0
    /\ smoothedEnvRef = 0
    /\ contextState = [c \in Ctx |-> "none"]
    /\ attached = {}
    /\ liveStreams = {}
    /\ clock = [c \in Ctx |-> 0]
    /\ pendingStarts = 0
    /\ input = "keyed"
    /\ lastOp = "init"
    /\ edge = NoEdge
    /\ pulse = NoPulse
    /\ steps = <<>>
    /\ gap = NoGap
    /\ held = "none"

\* the list of lines when the practice text is the one line text
OneLine(text) == IF text = <<>> THEN <<>> ELSE <<text>>

\* what the Timeline shows of no text and no signals; no command detected
ViewInit ==
    /\ displayed = <<>>
    /\ aligned = <<>>
    /\ detected = FALSE

Init ==
    /\ lines = <<>>
    /\ currentLineIndex = 0
    /\ currentLineText = <<>>
    /\ wpm = 157
    /\ idealSignals = <<>>
    /\ ViewInit
    /\ HookInit

(***************************************************************************)
(* The arrays the hook hands over.                                         *)
(***************************************************************************)
\* a step that sets React state to a new value renders the component again,
\* and the hook's return value names signalsRef.current itself
Rendered == <<stateVars, userSignals>>' # <<stateVars, userSignals>>

\* held after a handler: replaced when the handler assigned a new array to
\* signalsRef.current, mutated when it pushed to or popped from the array in
\* place, handed when it passed signalsRef.current itself to onSignalChange
HeldAfter(replaced, mutated, handed) ==
    IF replaced THEN (IF handed \/ Rendered THEN "live" ELSE "none")
    ELSE IF held = "mutated" \/ (held = "live" /\ mutated) THEN "mutated"
    ELSE IF Rendered THEN "live"
    ELSE held

(***************************************************************************)
(* onaudioprocess: the detector.                                           *)
(***************************************************************************)
\* the envelope follower: fast attack, slow decay
Envelope(env, absVal) ==
    IF absVal > env THEN (env * 6 + absVal * 4) \div 10 ELSE (env * 98) \div 100

\* a transition to ON that ignores a short gap also when the list is empty
TransitionOnDebouncingEmpty(d, relativeTime) ==
    LET durationSinceLast == relativeTime - d.lastChange
    IN  IF durationSinceLast < DebounceTime
        THEN IF Len(d.signals) > 0
             THEN [signals |-> Front(d.signals),
                   lastChange |-> IF Last(d.signals).state = "on"
                                  THEN Last(d.signals).startTime
                                  ELSE d.lastChange,
                   signalState |-> TRUE]
             ELSE [d EXCEPT !.signalState = TRUE]
        ELSE [signals |-> IF Len(d.signals) > 0 \/ d.lastChange > 0
                          THEN Append(d.signals, [startTime |-> d.lastChange,
                                                  duration |-> durationSinceLast,
                                                  state |-> "off"])
                          ELSE d.signals,
              lastChange |-> relativeTime,
              signalState |-> TRUE]

\* a transition to ON that commits the silence before the first tone as well
TransitionOnPushingFirst(d, relativeTime) ==
    LET durationSinceLast == relativeTime - d.lastChange
    IN  IF durationSinceLast < DebounceTime /\ Len(d.signals) > 0
        THEN LET lastSig == Last(d.signals)
             IN  [signals |-> Front(d.signals),
                  lastChange |-> IF lastSig.state = "on" THEN lastSig.startTime
                                 ELSE d.lastChange,
                  signalState |-> TRUE]
        ELSE [signals |-> Append(d.signals, [startTime |-> d.lastChange,
                                             duration |-> durationSinceLast,
                                             state |-> "off"]),
              lastChange |-> relativeTime,
              signalState |-> TRUE]

\* the transition to ON at relativeTime; d is [signals, lastChange, signalState]
TransitionOn(d, relativeTime) ==
    LET durationSinceLast == relativeTime - d.lastChange
    IN  IF durationSinceLast < DebounceTime /\ Len(d.signals) > 0
        THEN LET lastSig == Last(d.signals)
             IN  [signals |-> Front(d.signals),
                  lastChange |-> IF lastSig.state = "on" THEN lastSig.startTime
                                 ELSE d.lastChange,
                  signalState |-> TRUE]
        ELSE [signals |-> IF Len(d.signals) > 0 \/ d.lastChange > 0
                          THEN Append(d.signals, [startTime |-> d.lastChange,
                                                  duration |-> durationSinceLast,
                                                  state |-> "off"])
                          ELSE d.signals,
              lastChange |-> relativeTime,
              signalState |-> TRUE]

\* the transition to OFF at relativeTime
TransitionOff(d, relativeTime) ==
    LET durationSinceLast == relativeTime - d.lastChange
    IN  IF durationSinceLast < DebounceTime
        THEN IF Len(d.signals) > 0 /\ Last(d.signals).state = "off"
             THEN [signals |-> Front(d.signals),
                   lastChange |-> Last(d.signals).startTime,
                   signalState |-> FALSE]
             ELSE [d EXCEPT !.signalState = FALSE]
        ELSE [signals |-> Append(d.signals, [startTime |-> d.lastChange,
                                             duration |-> durationSinceLast,
                                             state |-> "on"]),
              lastChange |-> relativeTime,
              signalState |-> FALSE]

\* a detector with one threshold: it goes off as soon as the envelope is not
\* above it
SampleWithoutHysteresis(d, env, th, relativeTime) ==
    IF ~d.signalState /\ env > th THEN TransitionOn(d, relativeTime)
    ELSE IF d.signalState /\ env <= th THEN TransitionOff(d, relativeTime)
    ELSE d

\* one iteration of the loop over the samples of a block
Sample(d, env, th, relativeTime) ==
    IF ~d.signalState /\ env > th THEN TransitionOn(d, relativeTime)
    ELSE IF d.signalState /\ env * 10 < th * 6 THEN TransitionOff(d, relativeTime)
    ELSE d

\* what one sample did: d the detector before it, d1 after it, env the
\* envelope and th the threshold it compared, at relativeTime
Step(d, d1, env, th, relativeTime) ==
    LET sinceLast == relativeTime - d.lastChange
    IN  [kind |-> IF ~d.signalState /\ d1.signalState THEN "rise"
                  ELSE IF d.signalState /\ ~d1.signalState THEN "fall"
                  ELSE "none",
         above |-> env > th,
         below |-> env * 10 < th * 6,
         long |-> sinceLast >= DebounceTime,
         empty |-> Len(d.signals) = 0,
         origin |-> d.lastChange = 0,
         appended |-> d1.signals =
                          Append(d.signals,
                                 [startTime |-> d.lastChange, duration |-> sinceLast,
                                  state |-> IF d.signalState THEN "on" ELSE "off"]),
         shortAdded |-> /\ Len(d1.signals) > Len(d.signals)
                        /\ Last(d1.signals).duration < DebounceTime,
         kept |-> d1.signals = d.signals,
         moved |-> d1.lastChange = relativeTime,
         stayed |-> d1.lastChange = d.lastChange]

\* what a sample's step shows of tones: g is [edge, pulse]
Observe(g, d, d1, relativeTime) ==
    IF ~d.signalState /\ d1.signalState
    THEN [g EXCEPT !.edge = [onAt |-> relativeTime, offStart |-> d.lastChange]]
    ELSE IF d.signalState /\ ~d1.signalState
    THEN [edge |-> NoEdge,
          pulse |-> IF relativeTime - g.edge.onAt < DebounceTime
                    THEN [seen |-> TRUE, offStart |-> g.edge.offStart,
                          openStart |-> d1.lastChange,
                          committed |-> Len(d1.signals) > Len(d.signals)]
                    ELSE g.pulse]
    ELSE g

\* what a sample's step shows of a short gap after a committed tone.  At a
\* fall the tone's end and, when an on interval was committed for it, its start
\* are kept.  At the next rise within DebounceTime of that end, with a list
\* that is not empty, the gap is merged: ok tells whether the committed tone
\* was popped, nothing pushed and lastChangeTime set back to its start.  At
\* the fall after that, ok tells whether the on interval then committed starts
\* at the first tone's start and ends at the fall.
ObserveGap(g, d, d1, relativeTime) ==
    IF ~d.signalState /\ d1.signalState
    THEN IF g.onStart >= 0 /\ relativeTime - g.fellAt < DebounceTime /\ Len(d.signals) > 0
         THEN [fellAt |-> -1, onStart |-> g.onStart, phase |-> "reopened",
               ok |-> /\ Last(d.signals).state = "on"
                      /\ Last(d.signals).startTime = g.onStart
                      /\ d1.signals = Front(d.signals)
                      /\ d1.lastChange = g.onStart]
         ELSE NoGap
    ELSE IF d.signalState /\ ~d1.signalState
    THEN LET committed == /\ Len(d1.signals) = Len(d.signals) + 1
                          /\ Last(d1.signals).state = "on"
         IN  [fellAt |-> IF committed THEN relativeTime ELSE -1,
              onStart |-> IF committed THEN Last(d1.signals).startTime ELSE -1,
              phase |-> IF g.phase = "reopened" THEN "closed" ELSE "none",
              ok |-> g.phase = "reopened" =>
                        /\ g.ok
                        /\ committed
                        /\ Last(d1.signals).startTime = g.onStart
                        /\ Last(d1.signals).duration = relativeTime - g.onStart]
    ELSE g

\* a relative time that is not clamped at the origin
RelativeTimeUnclamped(bufferStartTime, i) ==
    bufferStartTime + i * SamplePeriod - startTimeRef

\* the relative time of sample i (from 0) of a block
RelativeTime(bufferStartTime, i) ==
    Max(0, bufferStartTime + i * SamplePeriod - startTimeRef)

\* one sample of the loop of onaudioprocess: the envelope follower, the
\* detector and what the step shows
ProcessSample(acc, absVal, relativeTime, th) ==
    LET env == Envelope(acc.env, absVal)
        d1 == Sample(acc.d, env, th, relativeTime)
    IN  [env |-> env,
         d |-> d1,
         g |-> Observe(acc.g, acc.d, d1, relativeTime),
         steps |-> Append(acc.steps, Step(acc.d, d1, env, th, relativeTime)),
         gap |-> ObserveGap(acc.gap, acc.d, d1, relativeTime)]

\* the loop from sample i on; each sample's outcome is computed once and
\* handed on as a value
RECURSIVE ProcessSamples(_, _, _, _, _)
ProcessSamples(acc, inputData, i, bufferStartTime, th) ==
    IF i >= Len(inputData) THEN acc
    ELSE LET after == {ProcessSample(acc, inputData[i + 1],
                                     RelativeTime(bufferStartTime, i), th)}
         IN  CHOOSE r \in {ProcessSamples(next, inputData, i + 1, bufferStartTime, th) :
                               next \in after} : TRUE

\* the loop of onaudioprocess over one block, from the refs
ProcessBlock(inputData, bufferStartTime, th) ==
    ProcessSamples([env |-> smoothedEnvRef,
                    d |-> [signals |-> signalsRef, lastChange |-> lastChangeTimeRef,
                           signalState |-> isSignalOnRef],
                    g |-> [edge |-> edge, pulse |-> NoPulse],
                    steps |-> <<>>,
                    gap |-> Settled(gap)],
                   inputData, 0, bufferStartTime, th)

\* blocks and long silences delivered so far: a context's clock counts both.
\* A run of the model holds at most MaxBlocks blocks, then at most one long
\* silence.
RECURSIVE Sum(_, _)
Sum(f, S) == IF S = {} THEN 0 ELSE LET x == CHOOSE y \in S : TRUE
                                   IN  f[x] + Sum(f, S \ {x})
BlocksDone == Sum([c \in Ctx |-> (clock[c] % SilenceTime) \div BlockTime], Ctx)
SilencesDone == Sum([c \in Ctx |-> clock[c] \div SilenceTime], Ctx)

\* onaudioprocess of the script node of context c, on one block; th is
\* thresholdRef.current, which follows the threshold prop and is read once
\* per block
OnAudioProcess(c, inputData, th) ==
    /\ c \in attached
    /\ \E r \in {ProcessBlock(inputData, clock[c], th)} :
           /\ signalsRef' = r.d.signals
           /\ lastChangeTimeRef' = r.d.lastChange
           /\ smoothedEnvRef' = r.env
           /\ isSignalOnRef' = r.d.signalState
           /\ edge' = r.g.edge
           /\ pulse' = r.g.pulse
           /\ steps' = r.steps
           /\ gap' = r.gap
           /\ IF r.d.signalState # isSignalOnRef
              THEN /\ isSignalOn' = r.d.signalState
                   /\ activeSignalStart' =
                          IF r.d.signalState THEN <<r.d.lastChange>> ELSE <<>>
                   /\ userSignals' = r.d.signals
              ELSE UNCHANGED <<isSignalOn, activeSignalStart, userSignals>>
    /\ clock' = [clock EXCEPT ![c] = @ + BlockTime]
    /\ lastOp' = "audio"
    /\ UNCHANGED <<appVars, input, isListening, resourceRefs, startTimeRef,
                   contextState, attached, liveStreams, pendingStarts,
                   rafRef>>
    /\ held' = HeldAfter(FALSE, signalsRef' # signalsRef, FALSE)

\* a block of the keyed input
AudioProcess(c, inputData, th) ==
    /\ BlocksDone < MaxBlocks
    /\ SilencesDone = 0
    /\ OnAudioProcess(c, inputData, th)

\* onaudioprocess of context c on SilenceTime of all-zero blocks while off
\* and not above the threshold th: no sample is a transition, the envelope
\* decays to nothing
Silence(c, duration) ==
    /\ c \in attached
    /\ SilencesDone = 0
    /\ ~isSignalOnRef
    /\ \E th \in Thresholds : smoothedEnvRef <= th
    /\ smoothedEnvRef' = 0
    /\ clock' = [clock EXCEPT ![c] = @ + duration]
    /\ lastOp' = "silence"
    /\ gap' = Settled(gap)
    /\ pulse' = NoPulse
    /\ steps' = <<>>
    /\ UNCHANGED <<appVars, input, userSignals, stateVars, resourceRefs, signalsRef,
                   isSignalOnRef, lastChangeTimeRef, startTimeRef,
                   contextState, attached, liveStreams, pendingStarts, rafRef, edge,
                   held>>

\* a silence of more than AutoPauseSilence
SilentBlocks(c) == Silence(c, SilenceTime)

\* a silence that ends two blocks short of AutoPauseSilence, the last audio
\* of a run
NearSilence(c) ==
    /\ BlocksDone <= MaxBlocks
    /\ Silence(c, NearSilenceTime)

(***************************************************************************)
(* cleanup, stopListening, updateUI, startListening, resetSignals.         *)
(***************************************************************************)
\* audioContextRef.current.currentTime, read lead after the next block's start
CurrentTime(lead) == clock[audioContextRef] + lead

\* cleanup()
cleanup ==
    /\ rafRef' = FALSE
    /\ attached' = attached \ {scriptNodeRef, audioContextRef}
    /\ liveStreams' = liveStreams \ {streamRef}
    /\ contextState' = [c \in Ctx |-> IF c = audioContextRef THEN "closed"
                                     ELSE contextState[c]]
    /\ audioContextRef' = Null
    /\ scriptNodeRef' = Null
    /\ isListening' = FALSE
    /\ activeSignalStart' = <<>>
    /\ isSignalOn' = FALSE
    /\ smoothedEnvRef' = 0

\* the final segment stopListening commits, or <<>>
FinalSegment(now) ==
    LET relativeNow == Max(0, now - startTimeRef)
        duration == relativeNow - lastChangeTimeRef
    IN  IF duration > MinFinalSegment
        THEN <<[startTime |-> lastChangeTimeRef, duration |-> duration,
                state |-> IF isSignalOnRef THEN "on" ELSE "off"]>>
        ELSE <<>>

\* whether stopListening() commits a final segment
Flushes(lead) == audioContextRef # Null /\ FinalSegment(CurrentTime(lead)) # <<>>

\* stopListening(), reading the audio clock lead into the block
stopListening(lead) ==
    /\ IF Flushes(lead)
       THEN /\ signalsRef' = signalsRef \o FinalSegment(CurrentTime(lead))
            /\ userSignals' = signalsRef'
       ELSE UNCHANGED <<signalsRef, userSignals>>
    /\ cleanup

StopListening(lead) ==
    /\ audioContextRef = Null => lead = 0
    /\ stopListening(lead)
    /\ lastOp' = "stop"
    /\ gap' = NoGap
    /\ pulse' = NoPulse
    /\ steps' = <<>>
    /\ UNCHANGED <<appVars, input, sourceRef, streamRef, isSignalOnRef, lastChangeTimeRef,
                   startTimeRef, clock, pendingStarts, edge>>
    /\ held' = HeldAfter(Flushes(lead), FALSE, Flushes(lead))

\* an auto-pause test that waits for a second committed interval
AutoPauseAfterTwo(now) ==
    /\ isListening
    /\ ~isSignalOnRef
    /\ Len(signalsRef) > 1
    /\ Max(0, now - startTimeRef) - lastChangeTimeRef > AutoPauseSilence

\* an auto-pause test that stops at a silence of exactly AutoPauseSilence
AutoPauseAtFive(now) ==
    /\ isListening
    /\ ~isSignalOnRef
    /\ Len(signalsRef) > 0
    /\ Max(0, now - startTimeRef) - lastChangeTimeRef >= AutoPauseSilence

\* the auto-pause test of updateUI
AutoPause(now) ==
    /\ isListening
    /\ ~isSignalOnRef
    /\ Len(signalsRef) > 0
    /\ Max(0, now - startTimeRef) - lastChangeTimeRef > AutoPauseSilence

\* a frame that tests for the auto-pause and schedules no frame after it
UpdateUIOnce(lead) ==
    /\ rafRef
    /\ audioContextRef = Null => lead = 0
    /\ IF audioContextRef # Null /\ AutoPause(CurrentTime(lead))
       THEN /\ stopListening(lead)
            /\ lastOp' = "autoPause"
            /\ gap' = NoGap
       ELSE /\ rafRef' = FALSE
            /\ lastOp' = "updateUI"
            /\ gap' = Settled(gap)
            /\ UNCHANGED <<userSignals, stateVars, audioContextRef, scriptNodeRef,
                           signalsRef, smoothedEnvRef, contextState, attached,
                           liveStreams>>
    /\ pulse' = NoPulse
    /\ steps' = <<>>
    /\ UNCHANGED <<appVars, input, sourceRef, streamRef, isSignalOnRef,
                   lastChangeTimeRef, startTimeRef, clock, pendingStarts, edge>>
    /\ LET flushes == /\ audioContextRef # Null
                      /\ AutoPause(CurrentTime(lead))
                      /\ Flushes(lead)
       IN  held' = HeldAfter(flushes, FALSE, flushes)

\* the scheduled frame runs updateUI
UpdateUI(lead) ==
    /\ rafRef
    /\ audioContextRef = Null => lead = 0
    /\ IF audioContextRef # Null /\ AutoPause(CurrentTime(lead))
       THEN /\ stopListening(lead)
            /\ lastOp' = "autoPause"
            /\ gap' = NoGap
       ELSE /\ rafRef' = TRUE
            /\ lastOp' = "updateUI"
            /\ gap' = Settled(gap)
            /\ UNCHANGED <<userSignals, stateVars, audioContextRef, scriptNodeRef,
                           signalsRef, smoothedEnvRef, contextState, attached,
                           liveStreams>>
    /\ pulse' = NoPulse
    /\ steps' = <<>>
    /\ UNCHANGED <<appVars, input, sourceRef, streamRef, isSignalOnRef, lastChangeTimeRef,
                   startTimeRef, clock, pendingStarts, edge>>
    /\ LET flushes == /\ audioContextRef # Null
                      /\ AutoPause(CurrentTime(lead))
                      /\ Flushes(lead)
       IN  held' = HeldAfter(flushes, FALSE, flushes)

\* startListening() up to its await of getUserMedia
StartListening ==
    /\ pendingStarts < MaxPending
    /\ pendingStarts' = pendingStarts + 1
    /\ IF audioContextRef # Null
       THEN cleanup
       ELSE UNCHANGED <<rafRef, attached, liveStreams, contextState,
                        audioContextRef, scriptNodeRef, stateVars, smoothedEnvRef>>
    /\ lastOp' = "start"
    /\ gap' = Settled(gap)
    /\ pulse' = NoPulse
    /\ steps' = <<>>
    /\ UNCHANGED <<appVars, input, userSignals, sourceRef, streamRef, signalsRef,
                   isSignalOnRef, lastChangeTimeRef, startTimeRef,
                   clock, edge>>
    /\ held' = HeldAfter(FALSE, FALSE, FALSE)

\* the next context to be created, Null when the model has no more
NewContext ==
    IF \E k \in 1..Len(Contexts) : contextState[Contexts[k]] = "none"
    THEN Contexts[CHOOSE k \in 1..Len(Contexts) :
                      /\ contextState[Contexts[k]] = "none"
                      /\ \A j \in 1..(k - 1) : contextState[Contexts[j]] # "none"]
    ELSE Null

\* a start that keeps the list and the timing of the session before it
StartCaptureKeepingList(c) ==
    /\ startTimeRef' = clock[c]
    /\ UNCHANGED <<lastChangeTimeRef, signalsRef>>
    /\ isSignalOnRef' = FALSE
    /\ smoothedEnvRef' = 0

\* the reset of the capture refs by startListening(), on the new context c
StartCapture(c) ==
    /\ startTimeRef' = clock[c]
    /\ lastChangeTimeRef' = 0
    /\ signalsRef' = <<>>
    /\ isSignalOnRef' = FALSE
    /\ smoothedEnvRef' = 0

\* startListening() from the stream getUserMedia resolved with to its end;
\* c names the stream and the AudioContext it creates, which is running
GetUserMediaResolved(c) ==
    /\ pendingStarts > 0
    /\ c = NewContext
    /\ pendingStarts' = pendingStarts - 1
    /\ streamRef' = c
    /\ liveStreams' = liveStreams \cup {c}
    /\ audioContextRef' = c
    /\ contextState' = [contextState EXCEPT ![c] = "running"]
    /\ scriptNodeRef' = c
    /\ sourceRef' = c
    /\ attached' = attached \cup {c}
    /\ StartCapture(c)
    /\ isListening' = TRUE
    /\ activeSignalStart' = <<>>
    /\ rafRef' = TRUE
    /\ lastOp' = "listening"
    /\ gap' = NoGap
    /\ edge' = NoEdge
    /\ pulse' = NoPulse
    /\ steps' = <<>>
    /\ UNCHANGED <<appVars, input, userSignals, isSignalOn, clock>>
    /\ held' = HeldAfter(TRUE, FALSE, FALSE)

\* startListening() from the rejection of getUserMedia: the catch block
GetUserMediaRejected ==
    /\ pendingStarts > 0
    /\ pendingStarts' = pendingStarts - 1
    /\ isListening' = FALSE
    /\ lastOp' = "rejected"
    /\ gap' = Settled(gap)
    /\ pulse' = NoPulse
    /\ steps' = <<>>
    /\ UNCHANGED <<appVars, input, userSignals, activeSignalStart, isSignalOn,
                   resourceRefs, captureRefs,
                   contextState, attached, liveStreams, clock, rafRef, edge>>
    /\ held' = HeldAfter(FALSE, FALSE, FALSE)

\* a reset that tears the audio graph down as a stop does
ResetSignalsHard(lead) ==
    /\ audioContextRef = Null => lead = 0
    /\ signalsRef' = <<>>
    /\ isSignalOnRef' = FALSE
    /\ IF audioContextRef # Null
       THEN /\ startTimeRef' = CurrentTime(lead)
            /\ lastChangeTimeRef' = 0
       ELSE UNCHANGED <<startTimeRef, lastChangeTimeRef>>
    /\ cleanup
    /\ userSignals' = <<>>
    /\ lastOp' = IF lastOp \in {"reset", "resetAgain"} THEN "resetAgain" ELSE "reset"
    /\ gap' = NoGap
    /\ edge' = NoEdge
    /\ pulse' = NoPulse
    /\ steps' = <<>>
    /\ UNCHANGED <<appVars, input, sourceRef, streamRef, clock, pendingStarts>>
    /\ held' = HeldAfter(TRUE, FALSE, FALSE)

\* resetSignals(), reading the audio clock lead into the block
resetSignals(lead) ==
    /\ audioContextRef = Null => lead = 0
    /\ signalsRef' = <<>>
    /\ smoothedEnvRef' = 0
    /\ isSignalOnRef' = FALSE
    /\ IF audioContextRef # Null
       THEN /\ startTimeRef' = CurrentTime(lead)
            /\ lastChangeTimeRef' = 0
            /\ isSignalOn' = FALSE
            /\ activeSignalStart' = <<>>
       ELSE UNCHANGED <<startTimeRef, lastChangeTimeRef, isSignalOn, activeSignalStart>>
    /\ userSignals' = <<>>
    /\ gap' = NoGap
    /\ edge' = NoEdge
    /\ pulse' = NoPulse
    /\ steps' = <<>>
    /\ UNCHANGED <<input, isListening, resourceRefs, browserVars, rafRef>>
    /\ held' = HeldAfter(TRUE, FALSE, FALSE)

\* a call of resetSignals() on its own
ResetSignals(lead) ==
    /\ resetSignals(lead)
    /\ lastOp' = IF lastOp \in {"reset", "resetAgain"} THEN "resetAgain" ELSE "reset"
    /\ UNCHANGED appVars

Next ==
    \/ StartListening
    \/ \E c \in Ctx : GetUserMediaResolved(c)
    \/ GetUserMediaRejected
    \/ \E c \in Ctx, inputData \in Blocks, th \in Thresholds :
           AudioProcess(c, inputData, th)
    \/ \E c \in Ctx : SilentBlocks(c)
    \/ \E c \in Ctx : NearSilence(c)
    \/ \E lead \in Leads : StopListening(lead)
    \/ \E lead \in Leads : UpdateUI(lead)
    \/ \E lead \in Leads : ResetSignals(lead)

Spec == Init /\ [][Next]_vars

(***************************************************************************)
(* One session that the operator starts, keys into and then abandons: the  *)
(* input falls silent for good, the script node goes on firing and the     *)
(* frame loop goes on running.                                             *)
(***************************************************************************)
\* the operator leaves the key
GoSilent ==
    /\ isListening
    /\ input = "keyed"
    /\ input' = "silent"
    /\ lastOp' = "goSilent"
    /\ UNCHANGED <<appVars, userSignals, stateVars, resourceRefs, captureRefs,
                   browserVars, rafRef, edge, pulse, steps, gap, held>>

\* onaudioprocess on a block of silence while the envelope still decays or
\* the pending state is still on
QuietProcess(c, th) ==
    /\ input = "silent"
    /\ isSignalOnRef \/ smoothedEnvRef > 0
    /\ SilencesDone = 0
    /\ OnAudioProcess(c, [i \in 1..BufferLength |-> 0], th)

\* the only start of the run
StartSession ==
    /\ lastOp = "init"
    /\ StartListening

QuietNext ==
    \/ StartSession
    \/ \E c \in Ctx : GetUserMediaResolved(c)
    \/ \E c \in Ctx, inputData \in Blocks, th \in Thresholds :
           input = "keyed" /\ AudioProcess(c, inputData, th)
    \/ GoSilent
    \/ \E c \in Ctx, th \in Thresholds : QuietProcess(c, th)
    \/ \E c \in Ctx : input = "silent" /\ SilentBlocks(c)
    \/ \E lead \in Leads : UpdateUI(lead)

\* the audio subsystem delivers every block of a connected script node, and
\* the browser runs every frame that requestAnimationFrame scheduled
QuietSpec ==
    /\ Init
    /\ [][QuietNext]_vars
    /\ WF_vars(\E c \in Ctx, th \in Thresholds : QuietProcess(c, th))
    /\ WF_vars(\E c \in Ctx : input = "silent" /\ SilentBlocks(c))
    /\ WF_vars(\E lead \in Leads : UpdateUI(lead))

(***************************************************************************)
(* The synthesizer applied to bounded texts and speeds.                    *)
(***************************************************************************)
SynthInit ==
    /\ currentLineText \in Texts \cup ReferenceTexts
    /\ lines = OneLine(currentLineText)
    /\ currentLineIndex = 0
    /\ wpm \in Wpms
    /\ idealSignals = <<>>
    /\ ViewInit
    /\ HookInit

\* the useMemo of App: idealSignals = textToIdealTiming(currentLineText, wpm)
Memo ==
    /\ lastOp = "init"
    /\ idealSignals' = textToIdealTiming(currentLineText, wpm)
    /\ lastOp' = "memo"
    /\ UNCHANGED <<input, lineVars, wpm, viewVars, userSignals, stateVars,
                   resourceRefs, captureRefs, browserVars, rafRef,
                   edge, pulse, steps, gap, held>>

SynthNext == Memo

SynthSpec == SynthInit /\ [][SynthNext]_vars

(***************************************************************************)
(* The Timeline applied to bounded ideal and captured sequences.           *)
(***************************************************************************)
\* getCurrentTime() of the hook
getCurrentTime(lead) ==
    IF audioContextRef = Null THEN 0 ELSE Max(0, CurrentTime(lead) - startTimeRef)

\* the activeSignal prop App builds for the Timeline
activeSignal(lead) ==
    IF isListening /\ activeSignalStart # <<>>
    THEN <<[state |-> IF isSignalOn THEN "on" ELSE "off",
            startTime |-> activeSignalStart[1],
            currentTime |-> getCurrentTime(lead)]>>
    ELSE <<>>

\* contiguous intervals of duration d from s0 with the given states
Intervals(s0, states, d) ==
    [i \in 1..Len(states) |->
        [startTime |-> s0 + (i - 1) * d, duration |-> d, state |-> states[i]]]

\* committed lists: nothing, a first gap, a first tone, and what follows
Shapes == {<<>>, <<"off">>, <<"on">>, <<"off", "on">>, <<"on", "off">>,
           <<"off", "on", "off">>}
Captured == {Intervals(s0, sh, 100000) : s0 \in {0, 400000}, sh \in Shapes}
\* ideal sequences: of no text, of "E" and of "K", and one whose first tone
\* starts at 2.0 s (the prop of the Timeline is any list of intervals)
Ideals == {<<>>, textToIdealTiming(<<"E">>, 157), textToIdealTiming(<<"K">>, 400),
           Intervals(0, <<"off", "on">>, 2000000)}
\* audio clock of the session at the render
Nows == {400000, 900000}

\* where the pending tone of a session with this committed list started
PendingStart(signals) ==
    IF signals = <<>> THEN 500000
    ELSE Last(signals).startTime + Last(signals).duration

\* a render with the session idle after a stop, or a session running on the
\* first context, with a tone pending or not
AlignInit ==
    /\ lines = <<>>
    /\ currentLineIndex = 0
    /\ currentLineText = <<>>
    /\ wpm = 157
    /\ idealSignals \in Ideals
    /\ ViewInit
    /\ userSignals \in Captured
    /\ signalsRef = userSignals
    /\ isListening \in BOOLEAN
    /\ activeSignalStart \in
           IF isListening /\ (userSignals = <<>> \/ Last(userSignals).state = "off")
           THEN {<<>>, <<PendingStart(userSignals)>>}
           ELSE {<<>>}
    /\ isSignalOn = (activeSignalStart # <<>>)
    /\ isSignalOnRef = isSignalOn
    /\ lastChangeTimeRef = IF userSignals = <<>> /\ ~isSignalOn THEN 0
                           ELSE PendingStart(userSignals)
    /\ startTimeRef = 0
    /\ smoothedEnvRef = IF isSignalOn THEN 2 ELSE 0
    /\ audioContextRef = IF isListening THEN Contexts[1] ELSE Null
    /\ scriptNodeRef = audioContextRef
    /\ sourceRef = Contexts[1]
    /\ streamRef = Contexts[1]
    /\ rafRef = isListening
    /\ contextState = [c \in Ctx |-> IF c # Contexts[1] THEN "none"
                                     ELSE IF isListening THEN "running" ELSE "closed"]
    /\ attached = IF isListening THEN {Contexts[1]} ELSE {}
    /\ liveStreams = attached
    /\ \E now \in Nows : clock = [c \in Ctx |-> IF c = Contexts[1] THEN now ELSE 0]
    /\ pendingStarts = 0
    /\ input = "keyed"
    /\ lastOp = "init"
    /\ edge = NoEdge
    /\ pulse = NoPulse
    /\ steps = <<>>
    /\ gap = NoGap
    /\ held = "live"

\* the two useMemo of the Timeline, on the props App passes at a render
Render(lead) ==
    /\ lastOp = "init"
    /\ audioContextRef = Null => lead = 0
    /\ displayed' = displaySignals(userSignals, activeSignal(lead), isListening)
    /\ aligned' = alignedUserSignals(idealSignals, displayed')
    /\ lastOp' = "render"
    /\ UNCHANGED <<input, lineVars, wpm, idealSignals, detected, userSignals,
                   stateVars, resourceRefs, captureRefs, browserVars, rafRef,
                   edge, pulse, steps, gap, held>>

AlignNext == \E lead \in Leads : Render(lead)

AlignSpec == AlignInit /\ [][AlignNext]_vars

(***************************************************************************)
(* detectCommand applied to bounded lists and speeds.                      *)
(***************************************************************************)
\* durations: 50 ms, twice the unit at 15.7 wpm, 200 ms
Durations == {50000, 2 * calculateDotLength(157), 200000}
\* a list of up to MaxSignals intervals, one after the other
Marks == SeqsUpTo({"on", "off"} \X Durations, MaxSignals)
RECURSIVE StartOf(_, _)
StartOf(marks, i) == IF i = 1 THEN 0 ELSE StartOf(marks, i - 1) + marks[i - 1][2]
Signals(marks) ==
    [i \in 1..Len(marks) |->
        [startTime |-> StartOf(marks, i), duration |-> marks[i][2],
         state |-> marks[i][1]]]

\* the hook idle after a stop that delivered the list
DetectInit ==
    /\ lines = <<>>
    /\ currentLineIndex = 0
    /\ currentLineText = <<>>
    /\ wpm \in {157, 400}
    /\ idealSignals = <<>>
    /\ ViewInit
    /\ \E marks \in Marks : userSignals = Signals(marks)
    /\ signalsRef = userSignals
    /\ isListening = FALSE
    /\ activeSignalStart = <<>>
    /\ isSignalOn = FALSE
    /\ isSignalOnRef = FALSE
    /\ lastChangeTimeRef = 0
    /\ startTimeRef = 0
    /\ smoothedEnvRef = 0
    /\ audioContextRef = Null
    /\ scriptNodeRef = Null
    /\ sourceRef = Contexts[1]
    /\ streamRef = Contexts[1]
    /\ rafRef = FALSE
    /\ contextState = [c \in Ctx |-> IF c = Contexts[1] THEN "closed" ELSE "none"]
    /\ attached = {}
    /\ liveStreams = {}
    /\ clock = [c \in Ctx |-> 0]
    /\ pendingStarts = 0
    /\ input = "keyed"
    /\ lastOp = "init"
    /\ edge = NoEdge
    /\ pulse = NoPulse
    /\ steps = <<>>
    /\ gap = NoGap
    /\ held = "live"

\* detectCommand(userSignals, wpm), commandChar left to its default
Detect ==
    /\ lastOp = "init"
    /\ detected' = detectCommand(userSignals, wpm, "K")
    /\ lastOp' = "detect"
    /\ UNCHANGED <<input, lineVars, wpm, idealSignals, displayed, aligned,
                   userSignals, stateVars, resourceRefs, captureRefs, browserVars,
                   rafRef, edge, pulse, steps, gap, held>>

DetectNext == Detect

DetectSpec == DetectInit /\ [][DetectNext]_vars

(***************************************************************************)
(* The speed controls of App.                                              *)
(***************************************************************************)
Min(a, b) == IF a < b THEN a ELSE b

\* Number(x.toFixed(1)): x in hundredths of a word per minute, the result in
\* tenths
toFixed1(x) == (x + 5) \div 10

\* updateWpm(newWpm), newWpm in hundredths: the value it sets
updateWpm(newWpm) == Max(MinWpm, Min(MaxWpm, toFixed1(newWpm)))

\* what the operator may type into the number field: 3, 4.9, 15.7, 40.1, 45
Entries == {30, 49, 157, 401, 450}
\* positions of the range slider, which the browser keeps between its min
\* and max
SliderPositions == {MinWpm + 50 * k : k \in 0..((MaxWpm - MinWpm) \div 50)}

\* the practice lines of the run
Lines == {<<>>, <<"E">>}

AppInit ==
    /\ currentLineText \in Lines
    /\ lines = OneLine(currentLineText)
    /\ currentLineIndex = 0
    /\ wpm = 157
    /\ idealSignals = textToIdealTiming(currentLineText, wpm)
    /\ ViewInit
    /\ HookInit

\* setWpm(value) and the render after it, with the useMemo of idealSignals
SetWpm(value, op) ==
    /\ wpm' = value
    /\ idealSignals' = textToIdealTiming(currentLineText, wpm')
    /\ lastOp' = op
    /\ UNCHANGED <<input, lineVars, viewVars, userSignals, stateVars,
                   resourceRefs, captureRefs, browserVars, rafRef,
                   edge, pulse, steps, gap, held>>

\* the buttons: updateWpm(wpm + 0.1), updateWpm(wpm - 0.1)
Increment == SetWpm(updateWpm(wpm * 10 + 10), "increment")
Decrement == SetWpm(updateWpm(wpm * 10 - 10), "decrement")
\* the number field: setWpm(parseFloat(e.target.value))
NumberEntry(value) == SetWpm(value, "entry")
\* the range slider: setWpm(parseFloat(e.target.value))
Slider(value) == SetWpm(value, "slider")

AppNext ==
    \/ Increment
    \/ Decrement
    \/ \E value \in Entries : NumberEntry(value)
    \/ \E value \in SliderPositions : Slider(value)

AppSpec == AppInit /\ [][AppNext]_vars

(***************************************************************************)
(* The practice lines of App: the source text, the navigation between its  *)
(* lines, and the effect that resets the capture.                          *)
(***************************************************************************)
\* what the operator may leave in the text area: nothing, one line, another
\* line, two lines, and two lines in the other order around a blank line
SourceTexts ==
    { <<>>,
      <<"E">>,
      <<"E", " ", "E">>,
      <<"E", "\n", "E", " ", "E">>,
      <<"E", " ", "E", "\n", " ", "\n", "E">> }

\* text.split('\n')
RECURSIVE split(_)
split(text) ==
    IF \A k \in 1..Len(text) : text[k] # "\n"
    THEN <<text>>
    ELSE LET k == CHOOSE j \in 1..Len(text) :
                      text[j] = "\n" /\ \A i \in 1..(j - 1) : text[i] # "\n"
         IN  <<SubSeq(text, 1, k - 1)>> \o split(SubSeq(text, k + 1, Len(text)))

\* l.trim()
RECURSIVE trimStart(_)
trimStart(l) == IF l # <<>> /\ Head(l) \in {" ", "\n"} THEN trimStart(Tail(l)) ELSE l
RECURSIVE trimEnd(_)
trimEnd(l) == IF l # <<>> /\ Last(l) \in {" ", "\n"} THEN trimEnd(Front(l)) ELSE l
trim(l) == trimEnd(trimStart(l))

\* inputText.split('\n').filter(l => l.trim().length > 0)
splitLines(inputText) == SelectSeq(split(inputText), LAMBDA l : Len(trim(l)) > 0)

\* ls[index] || ""
LineAt(ls, index) == IF index < Len(ls) THEN ls[index + 1] ELSE <<>>

\* the render after the lines or the index changed: currentLineText and the
\* useMemo of idealSignals
RenderLine ==
    /\ currentLineText' = LineAt(lines', currentLineIndex')
    /\ idealSignals' = textToIdealTiming(currentLineText', wpm)
    /\ UNCHANGED <<wpm, viewVars>>

\* the source text App starts from has been parsed; its first line is current
PracticeInit ==
    /\ lines = <<<<"E">>, <<"E", " ", "E">>>>
    /\ currentLineIndex = 0
    /\ currentLineText = LineAt(lines, currentLineIndex)
    /\ wpm = 157
    /\ idealSignals = textToIdealTiming(currentLineText, wpm)
    /\ ViewInit
    /\ HookInit

\* the textarea's onChange: setInputText(text), the effect that parses the
\* text, and the reset effect, which runs when currentLineIndex changed
SetInputText(text, lead) ==
    /\ lines' = splitLines(text)
    /\ currentLineIndex' = IF currentLineIndex >= Len(lines') THEN 0 ELSE currentLineIndex
    /\ RenderLine
    /\ IF currentLineIndex' # currentLineIndex
       THEN resetSignals(lead)
       ELSE /\ lead = 0
            /\ gap' = Settled(gap)
            /\ pulse' = NoPulse
            /\ steps' = <<>>
            /\ UNCHANGED <<userSignals, stateVars, resourceRefs, captureRefs,
                           browserVars, input, rafRef, edge, held>>
    /\ lastOp' = "edit"

\* resetSignals() and, when isListening is false, startListening() up to its
\* await; the reset effect then calls resetSignals() once more where the
\* handler changed currentLineIndex, which leaves what the first call left
ResetAndListen(lead) ==
    IF isListening
    THEN resetSignals(lead)
    ELSE /\ pendingStarts < MaxPending
         /\ pendingStarts' = pendingStarts + 1
         /\ signalsRef' = <<>>
         /\ isSignalOnRef' = FALSE
         /\ userSignals' = <<>>
         /\ IF audioContextRef # Null
            THEN /\ startTimeRef' = CurrentTime(lead)
                 /\ lastChangeTimeRef' = 0
                 /\ cleanup
            ELSE /\ lead = 0
                 /\ smoothedEnvRef' = 0
                 /\ UNCHANGED <<startTimeRef, lastChangeTimeRef, rafRef, attached,
                                liveStreams, contextState, audioContextRef,
                                scriptNodeRef, stateVars>>
         /\ gap' = NoGap
         /\ edge' = NoEdge
         /\ pulse' = NoPulse
         /\ steps' = <<>>
         /\ UNCHANGED <<input, sourceRef, streamRef, clock>>
         /\ held' = HeldAfter(TRUE, FALSE, FALSE)

\* handlePrevLine()
HandlePrevLine(lead) ==
    /\ currentLineIndex > 0
    /\ currentLineIndex' = currentLineIndex - 1
    /\ UNCHANGED lines
    /\ RenderLine
    /\ ResetAndListen(lead)
    /\ lastOp' = "prevLine"

\* handleNextLine()
HandleNextLine(lead) ==
    /\ currentLineIndex < Len(lines) - 1
    /\ currentLineIndex' = currentLineIndex + 1
    /\ UNCHANGED lines
    /\ RenderLine
    /\ ResetAndListen(lead)
    /\ lastOp' = "nextLine"

\* handleRestart()
HandleRestart(lead) ==
    /\ UNCHANGED <<lineVars, wpm, idealSignals, viewVars>>
    /\ ResetAndListen(lead)
    /\ lastOp' = "restart"

PracticeNext ==
    \/ \E text \in SourceTexts, lead \in Leads : SetInputText(text, lead)
    \/ \E lead \in Leads : HandlePrevLine(lead)
    \/ \E lead \in Leads : HandleNextLine(lead)
    \/ \E lead \in Leads : HandleRestart(lead)
    \/ \E c \in Ctx : GetUserMediaResolved(c)
    \/ \E c \in Ctx, inputData \in Blocks : AudioProcess(c, inputData, 1)

PracticeSpec == PracticeInit /\ [][PracticeNext]_vars

(***************************************************************************)
(* Properties of the capture session (Spec).                               *)
(***************************************************************************)
Alternating(s) == \A i \in 1..(Len(s) - 1) : s[i].state # s[i + 1].state
Contiguous(s) ==
    \A i \in 1..(Len(s) - 1) : s[i + 1].startTime = s[i].startTime + s[i].duration

\* C1: in every reachable state the committed list strictly alternates
\* between on and off and is contiguous: each interval starts where the one
\* before it ends.
CommittedListWellFormed == Alternating(signalsRef) /\ Contiguous(signalsRef)

\* C2: when a tone of less than 15 ms ends, no interval was committed for it
\* and the open silence starts where the silence before the tone started.
GlitchLeavesOneGap ==
    pulse.seen => (~pulse.committed /\ pulse.openStart = pulse.offStart)

\* the test C3 names, on the audio clock read lead into the block
SilentTooLong(lead) ==
    /\ isListening
    /\ audioContextRef # Null
    /\ ~isSignalOnRef
    /\ Len(signalsRef) > 0
    /\ Max(0, CurrentTime(lead) - startTimeRef) - lastChangeTimeRef > AutoPauseSilence

StopFlushesOnce ==
    [][\A lead \in Leads :
           (StopListening(lead) \/ (UpdateUI(lead) /\ lastOp' = "autoPause")) =>
               /\ signalsRef' =
                      IF audioContextRef # Null /\ FinalSegment(CurrentTime(lead)) # <<>>
                      THEN Append(signalsRef,
                                  [startTime |-> lastChangeTimeRef,
                                   duration |-> Max(0, CurrentTime(lead) - startTimeRef)
                                                    - lastChangeTimeRef,
                                   state |-> IF isSignalOnRef THEN "on" ELSE "off"])
                      ELSE signalsRef
               /\ audioContextRef' = Null
               /\ audioContextRef = Null =>
                      UNCHANGED <<captureRefs, userSignals, stateVars>>]_vars

\* C5: when a start completes, the envelope is 0, the pending state is off,
\* lastChangeTime is 0, the committed list is empty and the time origin is the
\* audio clock of the new context.
StartResetsCapture ==
    lastOp = "listening" =>
        /\ isListening
        /\ smoothedEnvRef = 0
        /\ ~isSignalOnRef
        /\ lastChangeTimeRef = 0
        /\ signalsRef = <<>>
        /\ startTimeRef = clock[audioContextRef]

\* a start completed after a session that had committed intervals
StartResetsCaptureWitness ==
    /\ lastOp = "listening"
    /\ Len(userSignals) > 0

\* C6: after a reset during a session, the first or a repeated one, the
\* committed list is empty, the origin is the audio clock at the reset, the
\* pending state is off, lastChangeTime and the envelope are 0; and no
\* committed interval starts before the origin.
ResetRebases ==
    /\ (lastOp \in {"reset", "resetAgain"} /\ audioContextRef # Null) =>
           /\ signalsRef = <<>>
           /\ startTimeRef - clock[audioContextRef] \in Leads
           /\ ~isSignalOnRef
           /\ lastChangeTimeRef = 0
           /\ smoothedEnvRef = 0
    /\ \A i \in 1..Len(signalsRef) : signalsRef[i].startTime >= 0

\* a second reset in a row during a session
ResetRebasesWitness ==
    /\ lastOp = "resetAgain"
    /\ audioContextRef # Null
    /\ isListening

\* C7: at most one audio-processing callback is attached at any time.
OneCallback == Cardinality(attached) <= 1

\* C14: every committed interval has startTime >= 0 and duration > 0, whatever
\* blocks, resets and stops came before, blocks that start before the
\* session origin included.
CommittedTimesValid ==
    \A i \in 1..Len(signalsRef) :
        /\ signalsRef[i].startTime >= 0
        /\ signalsRef[i].duration > 0

\* C20: when an interval is committed and a gap of less than 15 ms follows a
\* committed tone, no off interval is committed for the gap, the committed on
\* interval is popped and re-opened (lastChangeTime set back to its start),
\* and the on interval committed when the tone ends starts at the first
\* tone's start and spans the gap.
ShortGapMerged == gap.phase # "none" => gap.ok

ShortGapMergedWitness ==
    /\ lastOp = "audio"
    /\ gap.phase = "closed"
    /\ gap.ok
    /\ Len(signalsRef) > 0
    /\ Last(signalsRef).state = "on"
    /\ Last(signalsRef).startTime = gap.onStart

\* C16: no array the presentation layer holds, handed over through
\* onSignalChange or through the hook's returned value, is changed afterwards
\* by an audio callback, a stop or a reset.
HeldListIsSnapshot == held # "mutated"

\* C13: when getUserMedia has rejected a start, the system is idle: the
\* capture-active flag is false and no audio callback is attached; the
\* rejection starts no new attempt.
RejectedStartIsIdle ==
    lastOp = "rejected" =>
        /\ ~isListening
        /\ attached = {}
        /\ pendingStarts < MaxPending

(***************************************************************************)
(* Properties of the synthesizer (SynthSpec).                              *)
(***************************************************************************)
RECURSIVE SumDurations(_)
SumDurations(s) == IF s = <<>> THEN 0 ELSE s[1].duration + SumDurations(Tail(s))

\* C8: the intervals of textToIdealTiming strictly alternate, are contiguous
\* from time 0, and the last one ends at the sum of all durations.
IdealTimingWellFormed ==
    lastOp = "memo" =>
        /\ Alternating(idealSignals)
        /\ Contiguous(idealSignals)
        /\ Len(idealSignals) > 0 =>
               /\ idealSignals[1].startTime = 0
               /\ Last(idealSignals).startTime + Last(idealSignals).duration
                      = SumDurations(idealSignals)

\* a text of two words
IdealTimingWellFormedWitness ==
    /\ lastOp = "memo"
    /\ Len(idealSignals) >= 4
    /\ \E i \in 1..Len(idealSignals) :
           idealSignals[i].duration = 7 * calculateDotLength(wpm)

\* C9: "E E" has exactly one off interval between the two letters' on
\* intervals, of exactly seven units.
WordGapIsSevenUnits ==
    (lastOp = "memo" /\ currentLineText = <<"E", " ", "E">>) =>
        /\ Len(idealSignals) = 4
        /\ [i \in 1..4 |-> idealSignals[i].state] = <<"on", "off", "on", "off">>
        /\ idealSignals[2].duration = 7 * calculateDotLength(wpm)

WordGapIsSevenUnitsWitness ==
    /\ lastOp = "memo"
    /\ currentLineText = <<"E", " ", "E">>
    /\ wpm = 385

\* whether duration is within 1 ms of k times 76.43 ms
NearUnits(duration, k) ==
    /\ duration - k * 76430 <= 1000
    /\ k * 76430 - duration <= 1000

\* C10: "K" gives six intervals of 3u(on), 1u(off), 1u(on), 1u(off), 3u(on),
\* 3u(off) with u = 1200/wpm ms; at 15.7 wpm each is within 1 ms of the same
\* multiple of 76.43 ms.
KTiming ==
    (lastOp = "memo" /\ currentLineText = <<"K">>) =>
        LET u == (1200 * 1000 * 10) \div wpm
            units == <<3, 1, 1, 1, 3, 3>>
        IN  /\ Len(idealSignals) = 6
            /\ [i \in 1..6 |-> idealSignals[i].state]
                   = <<"on", "off", "on", "off", "on", "off">>
            /\ \A i \in 1..6 : idealSignals[i].duration = units[i] * u
            /\ wpm = 157 =>
                   \A i \in 1..6 : NearUnits(idealSignals[i].duration, units[i])

KTimingWitness ==
    /\ lastOp = "memo"
    /\ currentLineText = <<"K">>
    /\ wpm = 157

(***************************************************************************)
(* Properties of the alignment (AlignSpec).                                *)
(***************************************************************************)
HasOn(signals) == \E i \in 1..Len(signals) : signals[i].state = "on"
FirstOnStart(signals) ==
    signals[CHOOSE i \in 1..Len(signals) :
                /\ signals[i].state = "on"
                /\ \A j \in 1..(i - 1) : signals[j].state = "off"].startTime

\* C11: when the ideal and the captured sequence (the committed list, with
\* the pending interval if there is one) both hold an on interval, the
\* aligned output is the captured sequence with every startTime moved by
\* (start of the first ideal on) - (start of the first captured on).
AlignmentShifts ==
    (lastOp = "render" /\ HasOn(idealSignals) /\ HasOn(displayed)) =>
        /\ SubSeq(displayed, 1, Len(userSignals)) = userSignals
        /\ Len(aligned) = Len(displayed)
        /\ \A i \in 1..Len(displayed) :
               /\ aligned[i].state = displayed[i].state
               /\ aligned[i].duration = displayed[i].duration
               /\ aligned[i].startTime =
                      displayed[i].startTime
                          + (FirstOnStart(idealSignals) - FirstOnStart(displayed))

\* ideal first tone at 2.0 s, captured first tone at 0.5 s after a first gap,
\* a pending interval shown: every start is moved by 1.5 s
AlignmentShiftsWitness ==
    /\ lastOp = "render"
    /\ HasOn(idealSignals)
    /\ FirstOnStart(idealSignals) = 2000000
    /\ Len(displayed) = Len(userSignals) + 1
    /\ displayed[1].state = "off"
    /\ HasOn(displayed)
    /\ FirstOnStart(displayed) = 500000
    /\ \A i \in 1..Len(displayed) :
           aligned[i].startTime = displayed[i].startTime + 1500000

\* C12: when the ideal or the captured sequence holds no on interval, the
\* aligned output is empty.
UnalignableIsEmpty ==
    (lastOp = "render" /\ ~(HasOn(idealSignals) /\ HasOn(displayed))) =>
        aligned = <<>>

\* a captured gap and no tone yet, against an ideal sequence with tones
UnalignableIsEmptyWitness ==
    /\ lastOp = "render"
    /\ HasOn(idealSignals)
    /\ Len(displayed) > 0
    /\ ~HasOn(displayed)
    /\ aligned = <<>>

(***************************************************************************)
(* Properties of detectCommand (DetectSpec).                               *)
(***************************************************************************)
\* the indices of the on intervals of signals
OnIndices(signals) == {i \in 1..Len(signals) : signals[i].state = "on"}
\* the k-th from last of a set of indices (k = 0 for the last)
RECURSIVE FromLast(_, _)
FromLast(S, k) ==
    LET m == CHOOSE x \in S : \A y \in S : y <= x
    IN  IF k = 0 THEN m ELSE FromLast(S \ {m}, k - 1)

IsSupported(ch) == toUpperCase(ch) \in Supported
Stripped(text) == SelectSeq(text, IsSupported)
Spaced(text) == [i \in 1..Len(text) |-> IF IsSupported(text[i]) THEN text[i] ELSE " "]

\* C18 as stated: the output of textToIdealTiming is its output on the text
\* with every unsupported character removed.
UnsupportedSkipped ==
    lastOp = "memo" => idealSignals = textToIdealTiming(Stripped(currentLineText), wpm)

\* C18, amended: an unsupported character emits no interval of its own and
\* acts as a word space: the output is the output on the text with a space in
\* the place of every unsupported character, and it has the intervals of the
\* text without them, state by state, with the same tones.
UnsupportedIsWordSpace ==
    lastOp = "memo" =>
        LET stripped == textToIdealTiming(Stripped(currentLineText), wpm)
        IN  /\ idealSignals = textToIdealTiming(Spaced(currentLineText), wpm)
            /\ Len(idealSignals) = Len(stripped)
            /\ \A i \in 1..Len(stripped) :
                   /\ idealSignals[i].state = stripped[i].state
                   /\ idealSignals[i].state = "on" =>
                          idealSignals[i].duration = stripped[i].duration

\* "E#E": the gap between the two letters is seven units, not three
UnsupportedIsWordSpaceWitness ==
    /\ lastOp = "memo"
    /\ currentLineText = <<"E", "#", "E">>
    /\ Len(idealSignals) = 4
    /\ idealSignals[2].duration = 7 * calculateDotLength(wpm)

\* C19: whatever the operator does with the buttons, the number field and
\* the slider, the wpm passed to the synthesizer stays within [5, 40].
WpmWithinLimits ==
    /\ MinWpm <= wpm
    /\ wpm <= MaxWpm
    /\ idealSignals = textToIdealTiming(currentLineText, wpm)

(***************************************************************************)
(* Properties of the samples of a block (Spec).                            *)
(***************************************************************************)
Transitions == {i \in 1..Len(steps) : steps[i].kind # "none"}

\* C21 as stated: every transition at least 15 ms after the last change
\* appends exactly the interval {lastChangeTime, gap, pending state} and sets
\* lastChangeTime to its time, the first transition to on of a session
\* included.
NormalRuleAppends ==
    \A i \in Transitions :
        steps[i].long => (steps[i].appended /\ steps[i].moved)

\* C21, amended: every transition at least 15 ms after the last change sets
\* lastChangeTime to its time and appends exactly the interval
\* {lastChangeTime, gap, pending state}, except the transition to on with an
\* empty list and lastChangeTime = 0, which appends nothing.
NormalRuleButLeadingSilence ==
    \A i \in Transitions :
        steps[i].long =>
            /\ steps[i].moved
            /\ IF steps[i].kind = "rise" /\ steps[i].empty /\ steps[i].origin
               THEN steps[i].kept
               ELSE steps[i].appended

NormalRuleButLeadingSilenceWitness ==
    /\ lastOp = "audio"
    /\ \E i \in Transitions :
           /\ steps[i].kind = "fall"
           /\ steps[i].long
           /\ steps[i].appended
           /\ Last(signalsRef).duration >= DebounceTime

\* C22: no sample of the audio callback appends an interval of less than
\* 15 ms to the committed list.
NoShortIntervalAppended ==
    \A i \in 1..Len(steps) : ~steps[i].shortAdded

\* C23: while the committed list is empty, a fall less than 15 ms after the
\* last change commits nothing and leaves lastChangeTime as it is, whereas a
\* rise less than 15 ms after the last change takes the normal branch: it sets
\* lastChangeTime to its time and commits the off segment when lastChangeTime
\* was above 0.
EmptyListGlitchesAsymmetric ==
    \A i \in Transitions :
        (steps[i].empty /\ ~steps[i].long) =>
            IF steps[i].kind = "fall"
            THEN steps[i].kept /\ steps[i].stayed
            ELSE /\ steps[i].moved
                 /\ IF steps[i].origin THEN steps[i].kept ELSE steps[i].appended

EmptyListGlitchesAsymmetricWitness ==
    /\ lastOp = "audio"
    /\ \E i, j \in Transitions :
           /\ i < j
           /\ steps[i].kind = "fall" /\ steps[i].empty /\ ~steps[i].long
           /\ steps[i].kept /\ steps[i].stayed
           /\ steps[j].kind = "rise" /\ steps[j].empty /\ ~steps[j].long
           /\ ~steps[j].origin /\ steps[j].appended /\ steps[j].moved

\* C24: a sample turns the detector on only when the envelope is above the
\* threshold of its block and off only when the envelope is below 0.6 times
\* that threshold; a sample whose envelope lies between the two changes
\* neither the state nor the list nor lastChangeTime, whatever threshold each
\* block reads.
HysteresisOnly ==
    \A i \in 1..Len(steps) :
        /\ steps[i].kind = "rise" => steps[i].above
        /\ steps[i].kind = "fall" => steps[i].below
        /\ (~steps[i].above /\ ~steps[i].below) =>
               (steps[i].kind = "none" /\ steps[i].kept /\ steps[i].stayed)

HysteresisOnlyWitness ==
    /\ lastOp = "audio"
    /\ isSignalOnRef
    /\ \E i, j \in 1..Len(steps) :
           /\ i < j
           /\ steps[i].kind = "rise" /\ steps[i].above
           /\ steps[j].kind = "none" /\ ~steps[j].above /\ ~steps[j].below

(***************************************************************************)
(* Properties of the handlers' effects (Spec).                             *)
(***************************************************************************)
\* the silence since lastChangeTime, on the audio clock read lead into the block
SilenceSince(lead) == Max(0, CurrentTime(lead) - startTimeRef) - lastChangeTimeRef

\* C25: a refresh check of an active session whose pending state is on, or
\* whose committed list is empty, or whose silence since lastChangeTime is
\* 5.0 s or less does not stop the session and leaves the committed list, the
\* pending state, lastChangeTime, the envelope and the capture-active flag
\* as they are.
QuietCheckLeavesCapture ==
    [][\A lead \in Leads :
           (/\ UpdateUI(lead)
            /\ isListening
            /\ audioContextRef # Null
            /\ \/ isSignalOnRef
               \/ Len(signalsRef) = 0
               \/ SilenceSince(lead) <= AutoPauseSilence)
           => /\ isListening'
              /\ lastOp' = "updateUI"
              /\ UNCHANGED <<signalsRef, isSignalOnRef, lastChangeTimeRef,
                             smoothedEnvRef, userSignals, audioContextRef,
                             attached>>]_vars

\* a check at exactly 5.0 s of silence left the session running
QuietCheckLeavesCaptureWitness ==
    /\ lastOp = "updateUI"
    /\ isListening
    /\ ~isSignalOnRef
    /\ Len(signalsRef) > 0
    /\ \E lead \in Leads : SilenceSince(lead) = AutoPauseSilence

\* C26: resetSignals leaves the capture-active flag, the audio context, the
\* script node, the microphone stream, the attached callbacks and the frame
\* loop as they are, whether a session is active or not.
ResetKeepsResources ==
    [][\A lead \in Leads :
           ResetSignals(lead) =>
               UNCHANGED <<isListening, resourceRefs, contextState, attached,
                           liveStreams, rafRef, pendingStarts>>]_vars

\* a reset of a running session after some audio
ResetKeepsResourcesWitness ==
    /\ lastOp = "reset"
    /\ isListening
    /\ audioContextRef \in attached
    /\ streamRef \in liveStreams
    /\ contextState[audioContextRef] = "running"
    /\ clock[audioContextRef] > 0
    /\ signalsRef = <<>>

\* C27: whenever the capture-active flag is false and no start is in
\* progress, no microphone stream is live, no audio context is running and
\* no callback is attached.
IdleReleasesResources ==
    (~isListening /\ pendingStarts = 0) =>
        /\ liveStreams = {}
        /\ attached = {}
        /\ \A c \in Ctx : contextState[c] # "running"

\* C28: after a start, an audio block, a stop or a reset, the list last
\* delivered through onSignalChange is the committed list.
DeliveredIsCommitted ==
    lastOp \in {"listening", "audio", "stop", "autoPause", "reset", "resetAgain"} =>
        userSignals = signalsRef


(***************************************************************************)
(* Properties of the practice lines (PracticeSpec).                        *)
(***************************************************************************)
\* C29: whenever the current practice line changes, by navigation or by an
\* edit of the source text, the step that changes it resets the capture: the
\* committed list and the delivered list are empty after it, so that no
\* interval of the previous line stands beside the ideal timing of the new
\* line.
LineChangeResetsCapture ==
    [][currentLineText' # currentLineText =>
           signalsRef' = <<>> /\ userSignals' = <<>>]_vars


(***************************************************************************)
(* Properties of the word gaps of the synthesizer (SynthSpec).             *)
(***************************************************************************)
\* tones of the characters of a cleaned text
RECURSIVE Tones(_)
Tones(clean) ==
    IF clean = <<>> THEN 0
    ELSE (IF Head(clean) = " " THEN 0 ELSE Len(MORSE_MAP[Head(clean)]))
         + Tones(Tail(clean))

\* positions of the last character of every word that another word follows
WordEnds(clean) ==
    {i \in 1..Len(clean) :
        /\ clean[i] # " "
        /\ i < Len(clean)
        /\ clean[i + 1] = " "
        /\ \E j \in (i + 1)..Len(clean) : clean[j] # " "}

\* C30: for every text and speed, the off interval between the last tone of a
\* word and the first tone of the next word lasts exactly seven units.  The
\* output alternates on and off, so the interval after the n-th tone is the
\* 2n-th.
EveryWordGapIsSevenUnits ==
    lastOp = "memo" =>
        LET clean == cleanText(currentLineText)
        IN  \A i \in WordEnds(clean) :
                LET gapAt == 2 * Tones(SubSeq(clean, 1, i))
                IN  /\ idealSignals[gapAt].state = "off"
                    /\ idealSignals[gapAt + 1].state = "on"
                    /\ idealSignals[gapAt].duration = 7 * calculateDotLength(wpm)


(***************************************************************************)
(* The PARIS standard (SynthSpec).                                         *)
(***************************************************************************)
RECURSIVE TotalDuration(_)
TotalDuration(signals) ==
    IF signals = <<>> THEN 0 ELSE Head(signals).duration + TotalDuration(Tail(signals))

\* C31: for every speed, textToIdealTiming("PARIS ") lasts 50 units of
\* 1200/wpm ms in all: its durations add up to 50 units and its last interval
\* ends 50 units after time 0.
ParisIsFiftyUnits ==
    (lastOp = "memo" /\ currentLineText = <<"P", "A", "R", "I", "S", " ">>) =>
        /\ TotalDuration(idealSignals) = 50 * ((1200 * 1000 * 10) \div wpm)
        /\ Last(idealSignals).startTime + Last(idealSignals).duration
               = 50 * ((1200 * 1000 * 10) \div wpm)

ParisIsFiftyUnitsWitness ==
    /\ lastOp = "memo"
    /\ currentLineText = <<"P", "A", "R", "I", "S", " ">>
    /\ wpm = 157
    /\ Len(idealSignals) = 28
    /\ TotalDuration(idealSignals) = 50 * 76433


(***************************************************************************)
(* The pause after the command (DetectSpec).                               *)
(***************************************************************************)
\* C32: detectCommand returns true only if a pause follows the dash, dot,
\* dash that it matched: the list ends with an off interval after its last on
\* interval.
DetectedIsFollowedByPause ==
    (lastOp = "detect" /\ detected) => Last(userSignals).state = "off"

=============================================================================
